---- MODULE Spec2Model ----
(***************************************************************************)
(* Marker-sequenced navigation of the Tello drone: the navigation state    *)
(* machine (NavigationController.update_state), the control law            *)
(* (NavigationController.calculate_control) and the main-loop iteration    *)
(* that drives them (DroneNavigationSystem.main_loop).                     *)
(*                                                                         *)
(* Time is counted in whole seconds.  Real numbers (pixel errors, PID      *)
(* terms, angles) are fixed-point integers in units of 1/Scale.            *)
(***************************************************************************)
EXTENDS Integers, Sequences, FiniteSets, TLC

\* ------------------------------------------------------------------ bounds
\* Last clock value at which a tick may run.
MaxTime == 4
\* Largest number of seconds between two ticks (at least one elapses).
MaxDt == 1
\* Largest marker identity on the course.
MaxMarkerId == 2
\* Last clock value at which a tick of a long run (TickClimbing,
\* TickSearching) may run.
MaxClimbTime == 7

\* --------------------------------------------------- configuration (config.py)
TARGET_HEIGHT_CM == 150
HEIGHT_TOLERANCE_CM == 4
THRESHOLD == 25
TARGET_X == 160
TARGET_Y == 192
TARGET_LOST_TIMEOUT_SEC == 3
MAX_ID_TIME_RESET == 5
\* PID gains in hundredths: X 1.5/0.1/0.15, Y 1.0/0.1/0.15, R 0.8/0/0.
PID_CONFIG ==
  [X |-> [KP |-> 150, KI |-> 10, KD |-> 15],
   Y |-> [KP |-> 100, KI |-> 10, KD |-> 15],
   R |-> [KP |-> 80, KI |-> 0, KD |-> 0]]

\* Fixed-point resolution: a real v is held as the integer v * Scale.  9600
\* makes dx*100 and dy*100 exact for whole-pixel centres (160 and 192 divide
\* 100 * 9600).
Scale == 96 * 100

\* ------------------------------------------------------------------ helpers
Abs(v) == IF v >= 0 THEN v ELSE -v

Sign(v) == IF v > 0 THEN 1 ELSE IF v < 0 THEN -1 ELSE 0

\* Quotient rounded toward zero.
TDiv(a, b) == Sign(a) * Sign(b) * (Abs(a) \div Abs(b))

\* Python int() of a fixed-point value: truncation toward zero.
PyInt(v) == TDiv(v, Scale)

Max2(a, b) == IF a >= b THEN a ELSE b

Min2(a, b) == IF a <= b THEN a ELSE b

\* ------------------------------------------------------------------ phases
TAKEOFF == "TAKEOFF"
ALIGNING == "ALIGNING"
APPROACHING == "APPROACHING"
LANDING == "LANDING"
NavigationPhase == {TAKEOFF, ALIGNING, APPROACHING, LANDING}

\* The value of a phase in the enumeration: the order of flight progress.
Rank(ph) ==
  CASE ph = TAKEOFF -> 0
    [] ph = ALIGNING -> 1
    [] ph = APPROACHING -> 2
    [] ph = LANDING -> 3

\* ------------------------------------------------------------ observations
\* Marker centres used as inputs: a point at distance exactly THRESHOLD from
\* the image target point (7-24-25 triangle) and the far corner of the frame.
Positions == { <<167, 216>>, <<0, 0>> }

\* camera_handler.MarkerInfo, without the corner array.
MarkerInfo ==
  { [id |-> i, center_x |-> p[1], center_y |-> p[2]] :
      i \in 0..MaxMarkerId, p \in Positions }

\* The value of "no marker" (Python None) for an Optional[MarkerInfo].
None == [id |-> -1, center_x |-> 0, center_y |-> 0]

\* A marker object whose centre and distance are not numbers (None), as a
\* caller of update_state and calculate_control may pass it; detect_markers
\* never builds one.  The centre (-1, -1) stands for it: no marker centre of
\* the model is negative.
Malformed(m) == m # None /\ m.center_x < 0

\* The lists that hold one such marker.
MalformedLists ==
  { << [id |-> i, center_x |-> 0 - 1, center_y |-> 0 - 1] >> : i \in 0..MaxMarkerId }

\* Marker centres on the lines through the image target point, beyond the
\* threshold: straight ahead of it (dx = 0) and level with it (dy = 0).
AxisPositions == { <<160, 100>>, <<200, 192>> }

\* The lists detect_markers returns with one marker at such a centre.
AxisLists ==
  { << [id |-> i, center_x |-> p[1], center_y |-> p[2]] >> :
      i \in 0..MaxMarkerId, p \in AxisPositions }

\* The markers of a view v (identity -> centre, or <<>> when not in view)
\* with identities from i upwards, as the list detect_markers returns.
RECURSIVE ViewList(_, _)
ViewList(v, i) ==
  IF i > MaxMarkerId THEN <<>>
  ELSE IF v[i] = <<>> THEN ViewList(v, i + 1)
  ELSE << [id |-> i, center_x |-> v[i][1], center_y |-> v[i][2]] >>
         \o ViewList(v, i + 1)

\* The lists detect_markers can return: every marker of the course is in
\* view at most once, at one of the centres.  With distinct identities the
\* order of the list decides nothing, so it is listed by identity.
MarkerLists ==
  { ViewList(v, 0) : v \in [0..MaxMarkerId -> Positions \cup {<<>>}] }

\* Heights around the target band: just below it, on its lower edge, and
\* just above it.
Heights ==
  { TARGET_HEIGHT_CM - HEIGHT_TOLERANCE_CM - 1,
    TARGET_HEIGHT_CM - HEIGHT_TOLERANCE_CM,
    TARGET_HEIGHT_CM + HEIGHT_TOLERANCE_CM + 1 }

\* detect_markers: distance = sqrt(dx*dx + dy*dy) from the target point; the
\* model keeps its square, which orders the same way.
Distance2(m) ==
  (m.center_x - TARGET_X) * (m.center_x - TARGET_X)
    + (m.center_y - TARGET_Y) * (m.center_y - TARGET_Y)

\* marker.distance <= ARUCO_CONFIG["THRESHOLD"]
WithinThreshold(m) == Distance2(m) <= THRESHOLD * THRESHOLD

\* next((m for m in markers if m.id == tid), None)
RECURSIVE FindTarget(_, _)
FindTarget(ms, tid) ==
  IF ms = <<>> THEN None
  ELSE IF Head(ms).id = tid THEN Head(ms)
  ELSE FindTarget(Tail(ms), tid)

\* max(marker.id for marker in markers), for a non-empty list
RECURSIVE MaxMarker(_)
MaxMarker(ms) ==
  IF Len(ms) = 1 THEN ms[1].id ELSE Max2(Head(ms).id, MaxMarker(Tail(ms)))

VARIABLES
  phase, target_id, reached_id, max_id,      \* NavigationState
  last_target_time, last_max_id_time,        \* NavigationState timers
  pid_x, pid_y, pid_r,                       \* the three PID loops
  control_values,                            \* the command of the last tick
  now,                                       \* the clock (time.time())
  pc,                                        \* position of main_loop
  current_height,                            \* main_loop local
  target_marker,                             \* main_loop local
  tracked_marker,                            \* update_state local target_marker
  pre,                                       \* NavigationState at tick start
  last_seen,                                 \* per identity: time last observed
  last_sighting,                             \* time the then-target was last observed
  reached_ticks,                             \* APPROACHING ticks that reached a waypoint
  markers,                                   \* main_loop local: markers in the frame (count)
  max_seen,                                  \* largest identity in any frame so far
  last_increase,                             \* time max_seen last grew
  drone,                                     \* the DroneController
  bluetooth,                                 \* the BluetoothHandler and its listener
  system                                     \* the DroneNavigationSystem

vars ==
  << phase, target_id, reached_id, max_id, last_target_time, last_max_id_time,
     pid_x, pid_y, pid_r, control_values, now, pc, current_height,
     target_marker, tracked_marker, pre, last_seen, last_sighting,
     reached_ticks, markers, max_seen, last_increase, drone, bluetooth,
     system >>

\* ---------------------------------------------------------------- PID loop
\* A loop as constructed (simple_pid.PID(Kp, Ki, Kd, setpoint=0)) at time t:
\* no integral, no previous input.  last_input is <<>> (None) or <<v>>.
NewPID(t) == [integral |-> 0, last_input |-> <<>>, last_time |-> t]

\* One call pid(input) at time t with gains K and setpoint 0:
\*   error = 0 - input; integral += Ki*error*dt;
\*   output = Kp*error + integral - Kd*(input - last_input)/dt.
\* No output limits are configured.  Ticks are at least one second apart, so
\* the loop's sample_time (0.01 s) never suppresses an update.
PIDCall(pid, K, input, t) ==
  LET dt == t - pid.last_time
      error == 0 - input
      d_input == IF pid.last_input = <<>> THEN 0 ELSE input - pid.last_input[1]
      proportional == TDiv(K.KP * error, 100)
      integral == pid.integral + TDiv(K.KI * error * dt, 100)
      derivative == TDiv(0 - K.KD * d_input, 100 * dt)
  IN  [output |-> proportional + integral + derivative,
       pid |-> [integral |-> integral, last_input |-> <<input>>, last_time |-> t]]

\* ------------------------------------------------------------ update_state
\* Mutant: the height band without its edges.
HeightReachedStrict(h) == Abs(h - TARGET_HEIGHT_CM) < HEIGHT_TOLERANCE_CM

\* abs(current_height - target_height) <= HEIGHT_TOLERANCE_CM
HeightReached(h) == Abs(h - TARGET_HEIGHT_CM) <= HEIGHT_TOLERANCE_CM

\* Mutant: the target counts as reached at any distance.
TargetReachedAnyDistance(tm) == tm # None

\* target_marker and target_marker.distance <= THRESHOLD.  For a malformed
\* marker the comparison raises; update_state catches it (lines 115-117) and
\* returns with the phase and the target as they were.
TargetReached(tm) == tm # None /\ ~Malformed(tm) /\ WithinThreshold(tm)

\* Mutant: max_id is never raised.
NextMaxIdNever(ms, mid) == mid

\* Mutant: max_id follows the largest identity of the latest non-empty list.
NextMaxIdLatest(ms, mid) == IF ms # <<>> THEN MaxMarker(ms) ELSE mid

\* The max_id update: the largest identity of a non-empty list, if larger.
NextMaxId(ms, mid) ==
  IF ms # <<>> /\ MaxMarker(ms) > mid THEN MaxMarker(ms) ELSE mid

\* The branch for phase TAKEOFF.
TakeoffBranch(nav, h) ==
  IF HeightReached(h) THEN [nav EXCEPT !.phase = ALIGNING] ELSE nav

\* Mutant: ALIGNING falls back to TAKEOFF when the target is not in view.
AligningBranchBackOnLoss(nav, tm) ==
  IF tm # None /\ WithinThreshold(tm) THEN [nav EXCEPT !.phase = APPROACHING]
  ELSE IF tm = None THEN [nav EXCEPT !.phase = TAKEOFF]
  ELSE nav

\* The branch for phase ALIGNING.
AligningBranch(nav, tm) ==
  IF TargetReached(tm) THEN [nav EXCEPT !.phase = APPROACHING] ELSE nav

\* Mutant: reaching a waypoint skips the next one.
ApproachingBranchSkip(nav, tm) ==
  IF tm # None /\ WithinThreshold(tm)
  THEN IF nav.target_id = 0
       THEN [nav EXCEPT !.phase = LANDING]
       ELSE [nav EXCEPT !.reached_id = @ + 1, !.target_id = @ + 2]
  ELSE nav

\* Mutant: reaching a waypoint moves the target on without counting it.
ApproachingBranchNoCount(nav, tm) ==
  IF tm # None /\ WithinThreshold(tm)
  THEN IF nav.target_id = 0
       THEN [nav EXCEPT !.phase = LANDING]
       ELSE [nav EXCEPT !.target_id = @ + 1]
  ELSE nav

\* Mutant: the landing marker is treated as one more waypoint.
ApproachingBranchNoLanding(nav, tm) ==
  IF tm # None /\ WithinThreshold(tm)
  THEN [nav EXCEPT !.reached_id = @ + 1, !.target_id = @ + 1]
  ELSE nav

\* Mutant: the landing marker is counted as a reached waypoint.
ApproachingBranchCountLanding(nav, tm) ==
  IF tm # None /\ WithinThreshold(tm)
  THEN IF nav.target_id = 0
       THEN [nav EXCEPT !.phase = LANDING, !.reached_id = @ + 1]
       ELSE [nav EXCEPT !.reached_id = @ + 1, !.target_id = @ + 1]
  ELSE nav

\* The branch for phase APPROACHING: land on marker 0, else advance.
ApproachingBranch(nav, tm) ==
  IF TargetReached(tm)
  THEN IF nav.target_id = 0
       THEN [nav EXCEPT !.phase = LANDING]
       ELSE [nav EXCEPT !.reached_id = @ + 1, !.target_id = @ + 1]
  ELSE nav

\* Mutant: the branches are tried one after the other (if, not elif).
HandlePhaseFallThrough(nav, tm, h) ==
  LET n1 == IF nav.phase = TAKEOFF THEN TakeoffBranch(nav, h) ELSE nav
      n2 == IF n1.phase = ALIGNING THEN AligningBranch(n1, tm) ELSE n1
  IN  IF n2.phase = APPROACHING THEN ApproachingBranch(n2, tm) ELSE n2

\* The phase dispatch of update_state; LANDING has no branch.
HandlePhase(nav, tm, h) ==
  IF nav.phase = TAKEOFF THEN TakeoffBranch(nav, h)
  ELSE IF nav.phase = ALIGNING THEN AligningBranch(nav, tm)
  ELSE IF nav.phase = APPROACHING THEN ApproachingBranch(nav, tm)
  ELSE nav

\* The last_target_time update: the target marker is in the list.
NextLastTargetTime(tm, ltt, t) == IF tm # None THEN t ELSE ltt

\* Mutant: the target counts as lost already at the timeout.
is_target_lost_inclusive == (now - last_target_time) >= TARGET_LOST_TIMEOUT_SEC

\* is_target_lost(), read at the current clock value.
is_target_lost == (now - last_target_time) > TARGET_LOST_TIMEOUT_SEC

\* Mutant: the max_id estimate counts as stale already at the timeout.
should_update_max_id_inclusive == (now - last_max_id_time) >= MAX_ID_TIME_RESET

\* should_update_max_id(), read at the current clock value.
should_update_max_id == (now - last_max_id_time) > MAX_ID_TIME_RESET

\* ------------------------------------------------------- calculate_control
\* dx * 100 = (center_x - TARGET_X) / TARGET_X * 100, in units of 1/Scale.
DxCent(m) == ((m.center_x - TARGET_X) * 100 * Scale) \div TARGET_X

\* dy * 100 = (TARGET_Y - center_y) / TARGET_Y * 100, in units of 1/Scale.
DyCent(m) == ((TARGET_Y - m.center_y) * 100 * Scale) \div TARGET_Y

\* np.arctan(n / d) * 180 / np.pi in units of 1/Scale degree, for the ratios
\* dx/dy of the marker centres in Positions (d # 0): arctan(0.35) = 19.29005
\* degrees, arctan(1) = 45 degrees.
ArctanDeg(n, d) ==
  CASE n * 100 = 35 * d -> 185184
    [] n * 100 = (0 - 35) * d -> 0 - 185184
    [] n = d -> 45 * Scale
    [] n = 0 - d -> 0 - 45 * Scale

\* rotation_error.  dx == 0 gives 0.  The centres are numpy floats, so for
\* dy == 0 the quotient dx/dy is +-inf (a warning, no exception) and the
\* arctangent is +-90 degrees.
RotationError(m) ==
  LET n == (m.center_x - TARGET_X) * TARGET_Y
      d == (TARGET_Y - m.center_y) * TARGET_X
  IN  IF n = 0 THEN 0
      ELSE IF d = 0 THEN Sign(n) * 90 * Scale
      ELSE ArctanDeg(n, d)

\* Mutant: the height rule with a dead band twice as wide as the tolerance.
UpDownWideBand(h) ==
  IF h > TARGET_HEIGHT_CM + 2 * HEIGHT_TOLERANCE_CM THEN 0 - 20
  ELSE IF h < TARGET_HEIGHT_CM - 2 * HEIGHT_TOLERANCE_CM THEN 20
  ELSE 0

\* Mutant: the height rule with its signs exchanged.
UpDownReversed(h) ==
  IF h > TARGET_HEIGHT_CM + HEIGHT_TOLERANCE_CM THEN 20
  ELSE IF h < TARGET_HEIGHT_CM - HEIGHT_TOLERANCE_CM THEN 0 - 20
  ELSE 0

\* Mutant: the height rule acts on the edges of the band as well.
UpDownStrictBand(h) ==
  IF h >= TARGET_HEIGHT_CM + HEIGHT_TOLERANCE_CM THEN 0 - 20
  ELSE IF h <= TARGET_HEIGHT_CM - HEIGHT_TOLERANCE_CM THEN 20
  ELSE 0

\* The height rule: descend above the band, climb below it.
UpDown(h) ==
  IF h > TARGET_HEIGHT_CM + HEIGHT_TOLERANCE_CM THEN 0 - 20
  ELSE IF h < TARGET_HEIGHT_CM - HEIGHT_TOLERANCE_CM THEN 20
  ELSE 0

\* Mutant: no clamping.
ClampOff(v) == v

\* max(min(v, 100), -100)
Clamp(v) == Max2(Min2(v, 100), 0 - 100)

ZeroCommand == [left_right |-> 0, forward_backward |-> 0, up_down |-> 0, yaw |-> 0]

\* Mutant: the loops are reset on a tick without the target in view.
calculate_control_reset_on_loss(ph, tm, h, px, py, pr, t) ==
  LET rx == PIDCall(px, PID_CONFIG.X, 0 - DxCent(tm), t)
      ry == PIDCall(py, PID_CONFIG.Y, 0 - DyCent(tm), t)
      rr == PIDCall(pr, PID_CONFIG.R, 0 - RotationError(tm), t)
      marker == tm # None
      align == marker /\ ph = ALIGNING
      move == marker /\ ph # ALIGNING
  IN  [control_values |->
         [left_right |-> Clamp(IF move THEN PyInt(rx.output) ELSE 0),
          forward_backward |-> Clamp(IF move THEN PyInt(ry.output) ELSE 0),
          up_down |-> Clamp(UpDown(h)),
          yaw |-> Clamp(IF align THEN PyInt(rr.output) ELSE 0)],
       pid_x |-> IF move THEN rx.pid ELSE IF marker THEN px ELSE NewPID(t),
       pid_y |-> IF move THEN ry.pid ELSE IF marker THEN py ELSE NewPID(t),
       pid_r |-> IF align THEN rr.pid ELSE IF marker THEN pr ELSE NewPID(t)]

\* Mutant: the yaw loop runs in every phase, beside the position loops.
calculate_control_yaw_always(ph, tm, h, px, py, pr, t) ==
  LET rx == PIDCall(px, PID_CONFIG.X, 0 - DxCent(tm), t)
      ry == PIDCall(py, PID_CONFIG.Y, 0 - DyCent(tm), t)
      rr == PIDCall(pr, PID_CONFIG.R, 0 - RotationError(tm), t)
      marker == tm # None
      move == marker /\ ph # ALIGNING
  IN  [control_values |->
         [left_right |-> Clamp(IF move THEN PyInt(rx.output) ELSE 0),
          forward_backward |-> Clamp(IF move THEN PyInt(ry.output) ELSE 0),
          up_down |-> Clamp(UpDown(h)),
          yaw |-> Clamp(IF marker THEN PyInt(rr.output) ELSE 0)],
       pid_x |-> IF move THEN rx.pid ELSE px,
       pid_y |-> IF move THEN ry.pid ELSE py,
       pid_r |-> IF marker THEN rr.pid ELSE pr]

\* calculate_control(tm, h, target_height) at time t in phase ph with the
\* loops px, py, pr: the command and the loops afterwards.  For a malformed
\* marker the computation of dx raises (line 135) before a loop is called,
\* and the handler returns a command with every field 0 (lines 162-164).
calculate_control(ph, tm, h, px, py, pr, t) ==
  LET rx == PIDCall(px, PID_CONFIG.X, 0 - DxCent(tm), t)
      ry == PIDCall(py, PID_CONFIG.Y, 0 - DyCent(tm), t)
      rr == PIDCall(pr, PID_CONFIG.R, 0 - RotationError(tm), t)
      marker == tm # None
      align == marker /\ ph = ALIGNING
      move == marker /\ ph # ALIGNING
  IN  IF Malformed(tm)
      THEN [control_values |-> ZeroCommand,
            pid_x |-> px, pid_y |-> py, pid_r |-> pr]
      ELSE [control_values |->
              [left_right |-> Clamp(IF move THEN PyInt(rx.output) ELSE 0),
               forward_backward |-> Clamp(IF move THEN PyInt(ry.output) ELSE 0),
               up_down |-> Clamp(UpDown(h)),
               yaw |-> Clamp(IF align THEN PyInt(rr.output) ELSE 0)],
            pid_x |-> IF move THEN rx.pid ELSE px,
            pid_y |-> IF move THEN ry.pid ELSE py,
            pid_r |-> IF align THEN rr.pid ELSE pr]

\* --------------------------------------------------------------- main_loop
\* Mutant: the control law uses the phase the iteration started in.
ControlPhaseBefore(before, after) == before

\* The phase calculate_control reads: self.state.phase after update_state
\* has run in the same iteration.
ControlPhase(before, after) == after

\* Mutant: when the target is not in view the control law steers on the
\* first marker of the list.
MainTargetMarkerAny(ms, before, after) ==
  IF FindTarget(ms, after) = None /\ ms # <<>> THEN Head(ms)
  ELSE FindTarget(ms, after)

\* Mutant: the control law gets the marker update_state looked up.
MainTargetMarkerStale(ms, before, after) == FindTarget(ms, before)

\* main_loop's own lookup of the target, made after update_state, with the
\* target_id update_state has left.
MainTargetMarker(ms, before, after) == FindTarget(ms, after)

\* Identity i is the target tid or may still become it: targets advance by
\* one from tid, except from the landing marker 0.
CanBeTarget(i, tid) == i = tid \/ (tid # 0 /\ i > tid)

\* The first half of a loop iteration with a frame read: detect_markers
\* returns ms, the height is h, dt seconds have passed since the previous
\* iteration.  update_state, the target lookup and calculate_control run in
\* that order.
Iteration(ms, h, dt) ==
  LET t == now + dt
      nav0 == [phase |-> phase, target_id |-> target_id, reached_id |-> reached_id]
      tm0 == FindTarget(ms, target_id)
      ids == { ms[i].id : i \in 1..Len(ms) }
      mid == NextMaxId(ms, max_id)
  IN  \E nav1 \in { HandlePhase(nav0, tm0, h) } :
      \E tm1 \in { MainTargetMarker(ms, target_id, nav1.target_id) } :
      \E cc \in { calculate_control(ControlPhase(phase, nav1.phase), tm1, h,
                                    pid_x, pid_y, pid_r, t) } :
        /\ now' = t
        /\ max_id' = mid
        /\ last_max_id_time' = IF mid # max_id THEN t ELSE last_max_id_time
        /\ last_target_time' = NextLastTargetTime(tm0, last_target_time, t)
        /\ phase' = nav1.phase
        /\ target_id' = nav1.target_id
        /\ reached_id' = nav1.reached_id
        /\ control_values' = cc.control_values
        /\ pid_x' = cc.pid_x
        /\ pid_y' = cc.pid_y
        /\ pid_r' = cc.pid_r
        /\ current_height' = h
        /\ target_marker' = tm1
        /\ tracked_marker' = tm0
        /\ pre' = nav0
        /\ last_seen' =
             [i \in DOMAIN last_seen |->
                IF ~CanBeTarget(i, nav1.target_id) THEN 0
                ELSE IF i \in ids THEN t ELSE last_seen[i]]
        /\ last_sighting' = IF target_id \in ids THEN t ELSE last_sighting
        /\ markers' = Len(ms)
        /\ max_seen' = IF \E i \in ids : i > max_seen
                       THEN CHOOSE i \in ids : \A j \in ids : j <= i
                       ELSE max_seen
        /\ last_increase' = IF \E i \in ids : i > max_seen THEN t ELSE last_increase
        /\ reached_ticks' =
             IF /\ phase = APPROACHING
                /\ target_id # 0
                /\ tm0 # None
                /\ WithinThreshold(tm0)
             THEN reached_ticks + 1
             ELSE reached_ticks
        /\ UNCHANGED << drone, bluetooth, system >>

\* main_loop lines 132-153: read a frame, detect, update, compute.
Tick ==
  /\ pc = "loop"
  /\ \E ms \in MarkerLists, h \in Heights, dt \in 1..MaxDt :
       /\ now + dt <= MaxTime
       /\ Iteration(ms, h, dt)
  /\ pc' = "send"

\* main_loop lines 155-192: the command goes to the drone and the log, the
\* locals of the iteration die, and the loop is left when the phase is
\* LANDING.  The controller's control_values field keeps the command until
\* the next calculate_control begins by setting every field to 0 (line 124),
\* before any field is read; that reset is applied here, where the command
\* has been used.
SendCommand ==
  /\ pc = "send"
  /\ pc' = IF phase = LANDING THEN "cleanup" ELSE "loop"
  /\ control_values' = ZeroCommand
  /\ current_height' = TARGET_HEIGHT_CM
  /\ target_marker' = None
  /\ tracked_marker' = None
  /\ markers' = 0
  /\ pre' = [phase |-> phase, target_id |-> target_id, reached_id |-> reached_id]
  /\ UNCHANGED << phase, target_id, reached_id, max_id, last_target_time,
                  last_max_id_time, pid_x, pid_y, pid_r, now, last_seen,
                  last_sighting, reached_ticks, max_seen, last_increase >>

\* The second half of an iteration seen from the engine alone.
Send ==
  /\ SendCommand
  /\ UNCHANGED << drone, bluetooth, system >>

\* An iteration while the drone is still below the height band: the phase
\* stays TAKEOFF, so the run is long enough for the max_id timeout.
TickClimbing ==
  /\ pc = "loop"
  /\ \E ms \in MarkerLists, dt \in 1..MaxDt :
       /\ now + dt <= MaxClimbTime
       /\ Iteration(ms, TARGET_HEIGHT_CM - HEIGHT_TOLERANCE_CM - 1, dt)
  /\ pc' = "send"

\* An iteration whose frame does not hold the target: the drone has lost it
\* and goes on looking, for longer than the timeouts, holding its height on
\* the edge of the band, with no marker or one other marker in view.
TickSearching ==
  /\ pc = "loop"
  /\ \E ms \in MarkerLists, dt \in 1..MaxDt :
       /\ Len(ms) <= 1
       /\ FindTarget(ms, target_id) = None
       /\ now + dt <= MaxClimbTime
       /\ Iteration(ms, TARGET_HEIGHT_CM - HEIGHT_TOLERANCE_CM, dt)
  /\ pc' = "send"

\* An iteration whose frame holds one marker on a line through the image
\* target point.
TickOnAxis ==
  /\ pc = "loop"
  /\ \E ms \in AxisLists, h \in Heights, dt \in 1..MaxDt :
       /\ now + dt <= MaxTime
       /\ Iteration(ms, h, dt)
  /\ pc' = "send"

\* An iteration of a caller that hands over a list with a malformed marker.
TickMalformed ==
  /\ pc = "loop"
  /\ \E ms \in MalformedLists, h \in Heights, dt \in 1..MaxDt :
       /\ now + dt <= MaxTime
       /\ Iteration(ms, h, dt)
  /\ pc' = "send"

\* ------------------------------------------------------ DroneController
\* SPEED_SCALE (0.4), in tenths.
SPEED_SCALE_TENTHS == 4

\* int(v * SPEED_SCALE): truncation toward zero.
ScaleSpeed(v) == TDiv(v * SPEED_SCALE_TENTHS, 10)

\* A command handed to the Tello handle, and the four the class issues.
TelloCommand(c, a) == [cmd |-> c, args |-> a]

TelloTakeoff == TelloCommand("takeoff", << >>)

TelloLand == TelloCommand("land", << >>)

TelloEnd == TelloCommand("end", << >>)

TelloRc(lr, fb, ud, yaw) == TelloCommand("send_rc_control", << lr, fb, ud, yaw >>)

\* DroneController.__init__.  The field drone is the Tello handle ("None"
\* until connect creates it); call is the method called last, result what
\* it returned and tello the commands it handed to the handle, in order.
DroneController ==
  [drone |-> "None", is_connected |-> FALSE, is_flying |-> FALSE,
   call |-> "__init__", result |-> "None", tello |-> << >>]

\* Mutant: the guard looks at the handle only.
NotReadyHandleOnly(d) == d.drone = "None"

\* The guard of takeoff, land and send_rc_control.
NotReady(d) == ~d.is_connected \/ d.drone = "None"

\* connect(): the WiFi step may fail before a handle exists ("wifi"); the
\* handle is made and its connect() may raise ("tello"); after
\* is_connected is set the battery query may raise ("battery").
connect(d, outcome) ==
  CASE outcome = "wifi" ->
         [d EXCEPT !.call = "connect", !.result = "False", !.tello = << >>]
    [] outcome = "tello" ->
         [d EXCEPT !.call = "connect", !.drone = "Tello", !.result = "False",
                   !.tello = << >>]
    [] outcome = "battery" ->
         [d EXCEPT !.call = "connect", !.drone = "Tello",
                   !.is_connected = TRUE, !.result = "False", !.tello = << >>]
    [] OTHER ->
         [d EXCEPT !.call = "connect", !.drone = "Tello",
                   !.is_connected = TRUE, !.result = "True", !.tello = << >>]

ConnectOutcomes == {"wifi", "tello", "battery", "ok"}

\* takeoff(): ok says whether the handle's takeoff() returns or raises.
takeoff(d, ok) ==
  IF NotReady(d)
  THEN [d EXCEPT !.call = "takeoff", !.result = "False", !.tello = << >>]
  ELSE IF ok
       THEN [d EXCEPT !.call = "takeoff", !.is_flying = TRUE,
                      !.result = "True", !.tello = << TelloTakeoff >>]
       ELSE [d EXCEPT !.call = "takeoff", !.result = "False",
                      !.tello = << TelloTakeoff >>]

\* land()
land(d, ok) ==
  IF NotReady(d)
  THEN [d EXCEPT !.call = "land", !.result = "False", !.tello = << >>]
  ELSE IF ok
       THEN [d EXCEPT !.call = "land", !.is_flying = FALSE,
                      !.result = "True", !.tello = << TelloLand >>]
       ELSE [d EXCEPT !.call = "land", !.result = "False",
                      !.tello = << TelloLand >>]

\* send_rc_control(left_right, forward_backward, up_down, yaw) with the
\* fields of the command cv, each scaled before it goes to the handle.
send_rc_control(d, cv, ok) ==
  IF NotReady(d)
  THEN [d EXCEPT !.call = "send_rc_control", !.result = "False",
                 !.tello = << >>]
  ELSE [d EXCEPT !.call = "send_rc_control",
                 !.result = IF ok THEN "True" ELSE "False",
                 !.tello = << TelloRc(ScaleSpeed(cv.left_right),
                                      ScaleSpeed(cv.forward_backward),
                                      ScaleSpeed(cv.up_down),
                                      ScaleSpeed(cv.yaw)) >>]

\* emergency_stop(): a zero command straight to the handle, then land() if
\* flying; when the zero command raises, the landing is skipped.
emergency_stop(d, rc_ok, land_ok) ==
  IF d.is_connected /\ d.drone # "None"
  THEN IF rc_ok /\ d.is_flying
       THEN [land(d, land_ok) EXCEPT
               !.call = "emergency_stop",
               !.result = "None",
               !.tello = << TelloRc(0, 0, 0, 0) >> \o land(d, land_ok).tello]
       ELSE [d EXCEPT !.call = "emergency_stop", !.result = "None",
                      !.tello = << TelloRc(0, 0, 0, 0) >>]
  ELSE [d EXCEPT !.call = "emergency_stop", !.result = "None",
                 !.tello = << >>]

\* The first half of cleanup(): land() if flying, then end(); an exception
\* of end() is swallowed, so its outcome end_ok changes nothing.
CleanupCommands(d, land_ok, end_ok) ==
  IF d.is_connected /\ d.drone # "None"
  THEN IF d.is_flying
       THEN [land(d, land_ok) EXCEPT
               !.tello = land(d, land_ok).tello \o << TelloEnd >>]
       ELSE [d EXCEPT !.tello = << TelloEnd >>]
  ELSE [d EXCEPT !.tello = << >>]

\* Mutant: the flags are cleared only when the landing went through.
cleanup_keep_flags(d, land_ok, end_ok) ==
  [CleanupCommands(d, land_ok, end_ok) EXCEPT
     !.call = "cleanup", !.is_connected = @ /\ d.is_flying /\ ~land_ok,
     !.result = "None"]

\* cleanup(): the commands above, then both flags cleared whatever happened.
cleanup(d, land_ok, end_ok) ==
  [CleanupCommands(d, land_ok, end_ok) EXCEPT
     !.call = "cleanup", !.is_connected = FALSE, !.is_flying = FALSE,
     !.result = "None"]

\* ----------------------------------------------------- BluetoothHandler
\* What one recv() of the listener may deliver, before decode().strip().
Chunks == {"stop", " stop\n", "height", "height\n", "", "\n"}

\* str.strip() on the chunks above.
Strip(chunk) ==
  CASE chunk = " stop\n" -> "stop"
    [] chunk = "height\n" -> "height"
    [] chunk = "\n" -> ""
    [] OTHER -> chunk

\* BluetoothHandler after start_listener: the listener is at its recv
\* ("recv") or holds a message it is about to put ("put", in data); the
\* queue is empty.  received lists the non-empty messages the listener has
\* taken off the socket and delivered those get_message has returned.
BluetoothHandler ==
  [is_running |-> TRUE, at |-> "recv", data |-> "", message_queue |-> << >>,
   received |-> << >>, delivered |-> << >>]

\* Mutant: put on a stack.
QueuePutFront(q, m) == << m >> \o q

\* queue.Queue.put
QueuePut(q, m) == Append(q, m)

\* get_message(): the head of the queue, or None (<< >>) when the queue is
\* still empty at the end of the timeout.
get_message(q) ==
  IF q = << >> THEN [message |-> << >>, message_queue |-> q]
  ELSE [message |-> << Head(q) >>, message_queue |-> Tail(q)]

\* ------------------------------------------------ DroneNavigationSystem
\* DroneNavigationSystem after setup(): message is the local of main_loop,
\* records counts the rows log_data wrote and rc_sent the commands the loop
\* sent; exit names the way main_loop was left and was_flying holds the
\* drone's is_flying flag at the start of cleanup().
DroneNavigationSystem(rf) ==
  [is_running |-> FALSE, real_flight |-> rf, message |-> << >>,
   records |-> 0, rc_sent |-> 0, exit |-> "none", was_flying |-> FALSE]

\* Mutant: the stop message is acknowledged and the loop goes on.
handle_bluetooth_message_ack_only(running, message) == running

\* handle_bluetooth_message: the value of is_running after the call.  The
\* "height" message and any other leave it alone.
handle_bluetooth_message(running, message) ==
  IF message = << "stop" >> THEN FALSE ELSE running

\* The state after construction: NavigationController.__init__.
InitEngine ==
  /\ max_id = 0
  /\ last_target_time = 0
  /\ last_max_id_time = 0
  /\ pid_x = NewPID(0)
  /\ pid_y = NewPID(0)
  /\ pid_r = NewPID(0)
  /\ control_values = ZeroCommand
  /\ now = 0
  /\ current_height = TARGET_HEIGHT_CM
  /\ target_marker = None
  /\ tracked_marker = None
  /\ pre = [phase |-> phase, target_id |-> target_id, reached_id |-> reached_id]
  /\ last_seen = [i \in 0..(MaxMarkerId + 1) |-> 0]
  /\ last_sighting = 0
  /\ reached_ticks = 0
  /\ markers = 0
  /\ max_seen = 0
  /\ last_increase = 0

\* The engine at the first iteration of main_loop in real flight: the
\* drone is connected and has taken off, the listener runs, no message has
\* come.
InitCommon ==
  /\ InitEngine
  /\ pc = "loop"
  /\ drone = takeoff(connect(DroneController, "ok"), TRUE)
  /\ bluetooth = BluetoothHandler
  /\ system = [DroneNavigationSystem(TRUE) EXCEPT !.is_running = TRUE]

Init ==
  /\ phase = TAKEOFF
  /\ target_id = 1
  /\ reached_id = 0
  /\ InitCommon

\* A controller whose caller has set the target to the landing marker
\* before the first tick (NavigationState is a public dataclass, and no
\* code of the repository assigns target_id = 0): any phase, target 0,
\* reached 0 or 1.
InitLandingTarget ==
  /\ phase \in NavigationPhase
  /\ target_id = 0
  /\ reached_id \in 0..1
  /\ InitCommon

\* A controller picked up in any phase, heading for the first waypoint or
\* for the landing marker, with no waypoint counted yet.
InitAnyPhase ==
  /\ phase \in NavigationPhase
  /\ target_id \in 0..1
  /\ reached_id = 0
  /\ InitCommon

\* reset_pid(): the three loops are reset (reset() of a loop clears its
\* integral and its previous input and sets its clock to the time of the
\* call).  No code of the repository calls it; a caller of the controller
\* may, between two iterations.  A call that changes nothing is left out.
reset_pid ==
  /\ pc = "loop"
  /\ now < MaxTime
  /\ pid_x' = NewPID(now)
  /\ pid_y' = NewPID(now)
  /\ pid_r' = NewPID(now)
  /\ << pid_x', pid_y', pid_r' >> # << pid_x, pid_y, pid_r >>
  /\ UNCHANGED << phase, target_id, reached_id, max_id, last_target_time,
                  last_max_id_time, control_values, now, pc, current_height,
                  target_marker, tracked_marker, pre, last_seen, last_sighting,
                  reached_ticks, markers, max_seen, last_increase, drone,
                  bluetooth, system >>

Next == Tick \/ Send

\* The loop during a climb that does not reach the height band.
NextClimbing == TickClimbing \/ Send

\* The loop with a search for the target that outlasts the timeouts.
NextSearching == Tick \/ TickSearching \/ Send

\* The loop over frames with a marker on a line through the target point.
NextOnAxis == Tick \/ TickOnAxis \/ Send

\* The loop with a caller whose lists may hold a malformed marker.
NextMalformed == Tick \/ TickMalformed \/ Send

\* The loop with a caller that may reset the loops between iterations.
NextWithReset == Tick \/ Send \/ reset_pid

Spec == Init /\ [][Next]_vars

SpecLandingTarget == InitLandingTarget /\ [][Next]_vars

SpecAnyPhase == InitAnyPhase /\ [][Next]_vars

SpecWithReset == Init /\ [][NextWithReset]_vars

SpecClimbing == Init /\ [][NextClimbing]_vars

SpecMalformed == InitAnyPhase /\ [][NextMalformed]_vars

SpecOnAxis == Init /\ [][NextOnAxis]_vars

SpecSearching == Init /\ [][NextSearching]_vars

\* The loop with its scheduling: an enabled step is eventually taken.
FairSpec == Spec /\ WF_vars(Tick) /\ WF_vars(Send)

\* ============================================== the system around the loop
\* Most non-empty messages the operator sends during one flight.
MaxMessages == 2

\* The variables of the navigation engine and of the loop's iteration.
engine_vars ==
  << phase, target_id, reached_id, max_id, last_target_time, last_max_id_time,
     pid_x, pid_y, pid_r, control_values, now, current_height,
     target_marker, tracked_marker, pre, last_seen, last_sighting,
     reached_ticks, markers, max_seen, last_increase >>

\* The system when main() enters main_loop: setup() has returned True, so
\* in real flight the drone is connected; the operator chose the mode.  The
\* controller is picked up in any phase, as in InitAnyPhase.
InitSystem ==
  /\ phase \in NavigationPhase
  /\ target_id \in 0..1
  /\ reached_id = 0
  /\ InitEngine
  /\ pc = "main_loop"
  /\ \E rf \in BOOLEAN :
       /\ system = DroneNavigationSystem(rf)
       /\ drone = IF rf THEN connect(DroneController, "ok") ELSE DroneController
  /\ bluetooth = BluetoothHandler

\* _listener_thread, lines 68-75: one recv; an empty message is dropped.
ListenerRecv ==
  /\ bluetooth.is_running
  /\ bluetooth.at = "recv"
  /\ Len(bluetooth.received) < MaxMessages
  /\ \E chunk \in Chunks :
       bluetooth' = IF Strip(chunk) = ""
                    THEN bluetooth
                    ELSE [bluetooth EXCEPT
                            !.at = "put", !.data = Strip(chunk),
                            !.received = Append(@, Strip(chunk))]
  /\ UNCHANGED << engine_vars, pc, drone, system >>

\* _listener_thread, line 78: the put.
ListenerPut ==
  /\ bluetooth.at = "put"
  /\ bluetooth' = [bluetooth EXCEPT
                     !.at = "recv", !.data = "",
                     !.message_queue = QueuePut(@, bluetooth.data)]
  /\ UNCHANGED << engine_vars, pc, drone, system >>

\* _listener_thread, lines 80-83: recv raises and the listener ends.
ListenerError ==
  /\ bluetooth.is_running
  /\ bluetooth.at = "recv"
  /\ bluetooth' = [bluetooth EXCEPT !.is_running = FALSE]
  /\ UNCHANGED << engine_vars, pc, drone, system >>

\* main_loop lines 114-122: is_running is set and, in real flight, the
\* drone takes off; a failed takeoff leaves main_loop through finally.
MainLoopEntry ==
  /\ pc = "main_loop"
  /\ \E ok \in BOOLEAN :
     \E d \in { IF system.real_flight THEN takeoff(drone, ok) ELSE drone } :
       /\ drone' = d
       /\ IF system.real_flight /\ d.result = "False"
          THEN /\ pc' = "cleanup"
               /\ system' = [system EXCEPT !.is_running = TRUE,
                                           !.exit = "takeoff"]
          ELSE /\ pc' = "loop"
               /\ system' = [system EXCEPT !.is_running = TRUE]
  /\ UNCHANGED << engine_vars, bluetooth >>

\* main_loop lines 124-130: one get_message per iteration; "stop" clears
\* is_running and leaves the loop.
MainGetMessage ==
  /\ pc = "loop"
  /\ system.is_running
  /\ \E g \in { get_message(bluetooth.message_queue) } :
     \E running \in { IF g.message # << >>
                      THEN handle_bluetooth_message(system.is_running, g.message)
                      ELSE system.is_running } :
       /\ bluetooth' = [bluetooth EXCEPT
                          !.message_queue = g.message_queue,
                          !.delivered = @ \o g.message]
       /\ system' = [system EXCEPT
                       !.message = g.message,
                       !.is_running = running,
                       !.exit = IF running THEN @ ELSE "stop"]
       /\ pc' = IF running THEN "frame" ELSE "cleanup"
  /\ UNCHANGED << engine_vars, drone >>

\* Mutant: the failed read is logged as a record.
ReadFrameFailsLogged ==
  /\ pc = "frame"
  /\ pc' = "loop"
  /\ system' = [system EXCEPT !.records = Min2(@ + 1, MaxTime)]
  /\ UNCHANGED << engine_vars, drone, bluetooth >>

\* main_loop lines 133-136: read_frame returns (False, None); continue.
ReadFrameFails ==
  /\ pc = "frame"
  /\ pc' = "loop"
  /\ UNCHANGED << engine_vars, drone, bluetooth, system >>

\* main_loop line 133 raising (the camera's read is not guarded): the
\* except arm logs and finally runs cleanup.
ReadFrameRaises ==
  /\ pc = "frame"
  /\ pc' = "cleanup"
  /\ system' = [system EXCEPT !.exit = "exception"]
  /\ UNCHANGED << engine_vars, drone, bluetooth >>

\* main_loop lines 139-153 after a good read.  The height is the drone's
\* in real flight (just above the band after the takeoff) and the
\* target height otherwise (line 142); the frame holds no marker or the
\* target alone, at the first position.
MainTick ==
  /\ pc = "frame"
  /\ \E ms \in MarkerLists, dt \in 1..MaxDt :
     \E h \in { IF system.real_flight
                THEN TARGET_HEIGHT_CM + HEIGHT_TOLERANCE_CM + 1
                ELSE TARGET_HEIGHT_CM } :
       /\ Len(ms) <= 1
       /\ Len(ms) = 1 =>
            /\ ms[1].id = target_id
            /\ << ms[1].center_x, ms[1].center_y >> = << 167, 216 >>
       /\ now + dt <= MaxTime
       /\ Iteration(ms, h, dt)
  /\ pc' = "send"

\* main_loop lines 155-192 in the system: the command goes to the drone in
\* real flight, one record is logged, and LANDING leaves the loop.
MainSend ==
  /\ SendCommand
  /\ \E ok \in BOOLEAN :
       drone' = IF system.real_flight
                THEN send_rc_control(drone, control_values, ok)
                ELSE drone
  /\ system' = [system EXCEPT
                  !.message = << >>,
                  !.records = @ + 1,
                  !.rc_sent = IF system.real_flight THEN @ + 1 ELSE @,
                  !.exit = IF phase = LANDING THEN "landing" ELSE @]
  /\ UNCHANGED bluetooth

\* cleanup(), lines 199-215, as finally runs it: in real flight
\* emergency_stop() then the drone's cleanup(); then the other components,
\* of which the Bluetooth handler stops its listener.  tello then holds
\* the commands of both calls.
MainCleanup ==
  /\ pc = "cleanup"
  /\ pc' = "done"
  /\ system' = [system EXCEPT !.was_flying = drone.is_flying]
  /\ bluetooth' = [bluetooth EXCEPT !.is_running = FALSE]
  /\ IF system.real_flight
     THEN \E rc_ok \in BOOLEAN, land_ok \in BOOLEAN, again_ok \in BOOLEAN :
          \E d1 \in { emergency_stop(drone, rc_ok, land_ok) } :
          \E d2 \in { cleanup(d1, again_ok, TRUE) } :
            drone' = [d2 EXCEPT !.tello = d1.tello \o d2.tello]
     ELSE UNCHANGED drone
  /\ UNCHANGED engine_vars

NextSystem ==
  \/ ListenerRecv
  \/ ListenerPut
  \/ ListenerError
  \/ MainLoopEntry
  \/ MainGetMessage
  \/ ReadFrameFails
  \/ ReadFrameRaises
  \/ MainTick
  \/ MainSend
  \/ MainCleanup

SpecSystem == InitSystem /\ [][NextSystem]_vars

\* ------------------------------------------- the DroneController by itself
\* Commands a caller may pass to send_rc_control.
RcInputs ==
  { [left_right |-> a, forward_backward |-> b, up_down |-> c, yaw |-> y] :
      a \in {0 - 100, 7}, b \in {0, 100}, c \in {0 - 20, 20},
      y \in {0 - 72, 0, 72} }

\* A caller calls the methods of a new DroneController in any order.
InitDrone ==
  /\ phase = TAKEOFF
  /\ target_id = 1
  /\ reached_id = 0
  /\ InitEngine
  /\ pc = "setup"
  /\ drone = DroneController
  /\ bluetooth = BluetoothHandler
  /\ system = DroneNavigationSystem(TRUE)

DroneConnect ==
  /\ \E outcome \in ConnectOutcomes : drone' = connect(drone, outcome)
  /\ UNCHANGED << engine_vars, pc, bluetooth, system >>

DroneTakeoff ==
  /\ \E ok \in BOOLEAN : drone' = takeoff(drone, ok)
  /\ UNCHANGED << engine_vars, pc, bluetooth, system >>

DroneLand ==
  /\ \E ok \in BOOLEAN : drone' = land(drone, ok)
  /\ UNCHANGED << engine_vars, pc, bluetooth, system >>

DroneSendRc ==
  /\ \E cv \in RcInputs, ok \in BOOLEAN : drone' = send_rc_control(drone, cv, ok)
  /\ UNCHANGED << engine_vars, pc, bluetooth, system >>

DroneEmergencyStop ==
  /\ \E rc_ok \in BOOLEAN, land_ok \in BOOLEAN :
       drone' = emergency_stop(drone, rc_ok, land_ok)
  /\ UNCHANGED << engine_vars, pc, bluetooth, system >>

DroneCleanup ==
  /\ \E land_ok \in BOOLEAN, end_ok \in BOOLEAN :
       drone' = cleanup(drone, land_ok, end_ok)
  /\ UNCHANGED << engine_vars, pc, bluetooth, system >>

NextDrone ==
  \/ DroneConnect
  \/ DroneTakeoff
  \/ DroneLand
  \/ DroneSendRc
  \/ DroneEmergencyStop
  \/ DroneCleanup

SpecDrone == InitDrone /\ [][NextDrone]_vars

\* ================================================================= claims
\* A tick has just run: its locals and its command are in the state.
Ticked == pc = "send"

Fields == {"left_right", "forward_backward", "up_down", "yaw"}

\* C1: every field of the command calculate_control returns lies in
\* [-100, 100], in every phase and for every marker position and height.
C1_CommandBounded ==
  \A k \in Fields : control_values[k] >= 0 - 100 /\ control_values[k] <= 100

\* C1 witness: a tick whose lateral and longitudinal PID outputs (-160 and
\* 110 for the marker in the frame corner) were cut to the range.
C1_Witness ==
  /\ Ticked
  /\ target_marker # None
  /\ control_values.left_right = 0 - 100
  /\ control_values.forward_backward = 100

\* C2: a tick in TAKEOFF moves to ALIGNING exactly when the height of that
\* tick is within the tolerance of the target height, whatever the markers;
\* and no tick that starts outside TAKEOFF ends in TAKEOFF.
C2_TakeoffGuard ==
  Ticked =>
    /\ pre.phase = TAKEOFF =>
         /\ phase \in {TAKEOFF, ALIGNING}
         /\ phase = ALIGNING <=>
              /\ current_height >= TARGET_HEIGHT_CM - HEIGHT_TOLERANCE_CM
              /\ current_height <= TARGET_HEIGHT_CM + HEIGHT_TOLERANCE_CM
    /\ pre.phase # TAKEOFF => phase # TAKEOFF

\* C2 witness: TAKEOFF left on the edge of the band with no marker in view.
C2_Witness ==
  /\ Ticked
  /\ pre.phase = TAKEOFF
  /\ phase = ALIGNING
  /\ current_height = TARGET_HEIGHT_CM - HEIGHT_TOLERANCE_CM
  /\ max_id = 0

\* C3: a tick in ALIGNING moves to APPROACHING only if the frame of that
\* tick holds the marker with the current target_id at distance <=
\* THRESHOLD; otherwise the phase stays ALIGNING.
C3_AligningGuard ==
  (Ticked /\ pre.phase = ALIGNING) =>
    /\ phase \in {ALIGNING, APPROACHING}
    /\ phase = APPROACHING =>
         /\ last_seen[pre.target_id] = now
         /\ tracked_marker.id = pre.target_id
         /\ Distance2(tracked_marker) <= THRESHOLD * THRESHOLD

\* C3 witness: the transition, with the target exactly at the threshold.
C3_Witness ==
  /\ Ticked
  /\ pre.phase = ALIGNING
  /\ phase = APPROACHING
  /\ Distance2(tracked_marker) = THRESHOLD * THRESHOLD

\* C4: a tick in APPROACHING with target_id # 0 that sees the target within
\* the threshold adds exactly 1 to reached_id and to target_id and stays in
\* APPROACHING; every other tick in APPROACHING leaves both unchanged.
C4_Advance ==
  (Ticked /\ pre.phase = APPROACHING) =>
    IF /\ pre.target_id # 0
       /\ tracked_marker # None
       /\ Distance2(tracked_marker) <= THRESHOLD * THRESHOLD
    THEN /\ reached_id = pre.reached_id + 1
         /\ target_id = pre.target_id + 1
         /\ phase = APPROACHING
    ELSE /\ reached_id = pre.reached_id
         /\ target_id = pre.target_id

\* C4 witness: a tick that advanced the target.
C4_Witness ==
  /\ Ticked
  /\ pre.phase = APPROACHING
  /\ target_id = pre.target_id + 1
  /\ reached_id = pre.reached_id + 1

\* C5: a tick in APPROACHING with target_id = 0 that sees marker 0 within
\* the threshold moves to LANDING; a tick that starts in LANDING ends in
\* LANDING, and the loop is only left in LANDING.
C5_Landing ==
  /\ (/\ Ticked
      /\ pre.phase = APPROACHING
      /\ pre.target_id = 0
      /\ tracked_marker # None
      /\ tracked_marker.id = 0
      /\ Distance2(tracked_marker) <= THRESHOLD * THRESHOLD) => phase = LANDING
  /\ (Ticked /\ pre.phase = LANDING) => phase = LANDING
  /\ pc = "cleanup" => phase = LANDING

\* C5 witness: the landing tick.
C5_Witness ==
  /\ Ticked
  /\ pre.phase = APPROACHING
  /\ pre.target_id = 0
  /\ phase = LANDING

\* C5, the second case: a tick that started in LANDING.
C5_TickInLanding == Ticked /\ pre.phase = LANDING

C6_NeverLanding == phase # LANDING /\ target_id >= 1

\* C7: the tick that takes APPROACHING to LANDING leaves reached_id and
\* target_id unchanged.
C7_LandingNotCounted ==
  (Ticked /\ pre.phase = APPROACHING /\ phase = LANDING) =>
    /\ reached_id = pre.reached_id
    /\ target_id = pre.target_id

\* C7 witness: a landing tick after one reached waypoint.
C7_Witness ==
  /\ Ticked
  /\ pre.phase = APPROACHING
  /\ phase = LANDING
  /\ pre.reached_id = 1
  /\ tracked_marker.id = 0

\* The yaw field of the alignment command for marker m: the yaw loop is
\* proportional only, so its output is 0.8 * rotation_error.
AlignYaw(m) ==
  Clamp(PyInt(PIDCall(pid_r, PID_CONFIG.R, 0 - RotationError(m), now).output))

\* C8 as claimed: on the tick that takes ALIGNING to APPROACHING the command
\* is the alignment command: yaw from the rotation error, lateral and
\* longitudinal 0.
C8_AlignCommandOnTransition ==
  (Ticked /\ pre.phase = ALIGNING /\ phase = APPROACHING) =>
    /\ control_values.yaw = AlignYaw(target_marker)
    /\ control_values.left_right = 0
    /\ control_values.forward_backward = 0

\* C8 amended: on the tick that takes ALIGNING to APPROACHING the command is
\* the approach command: calculate_control runs after update_state and reads
\* the new phase, so yaw is 0, the yaw loop is not called, and lateral and
\* longitudinal are the clamped outputs of the lateral and longitudinal
\* loops for the target's dx and dy.
C8_ApproachCommandOnTransition ==
  [][(pc = "loop" /\ phase = ALIGNING /\ phase' = APPROACHING) =>
       /\ target_marker' # None
       /\ control_values'.yaw = 0
       /\ control_values'.left_right =
            Clamp(PyInt(PIDCall(pid_x, PID_CONFIG.X,
                                0 - DxCent(target_marker'), now').output))
       /\ control_values'.forward_backward =
            Clamp(PyInt(PIDCall(pid_y, PID_CONFIG.Y,
                                0 - DyCent(target_marker'), now').output))
       /\ pid_r' = pid_r]_vars

\* C8 witness: the transition tick, with a non-zero lateral command and a
\* marker whose alignment yaw would not have been 0.
C8_Witness ==
  /\ Ticked
  /\ pre.phase = ALIGNING
  /\ phase = APPROACHING
  /\ control_values.left_right # 0
  /\ control_values.yaw = 0
  /\ AlignYaw(target_marker) # 0

\* C9 as claimed: the marker the control law steers on is the marker the
\* tracker and the state machine evaluated in the same tick.
C9_ResolvedOnce == Ticked => target_marker = tracked_marker

\* C9 amended: the target is looked up twice per tick, by update_state with
\* the target_id the tick starts with and by main_loop with the target_id
\* update_state leaves.  On a tick that does not advance target_id the two
\* are the same marker; on a tick that advances it the state machine
\* evaluated the old target and the control law steers on the marker with
\* the new target_id, or on none when that marker is not in view.
C9_ResolvedTwice ==
  Ticked =>
    /\ target_id = pre.target_id => target_marker = tracked_marker
    /\ target_id # pre.target_id =>
         /\ tracked_marker.id = pre.target_id
         /\ target_marker # tracked_marker
         /\ IF last_seen[target_id] = now
            THEN target_marker.id = target_id
            ELSE target_marker = None

\* C9 witness: an advancing tick with the next marker in view: the state
\* machine evaluated one marker and the control law steers on another.
C9_Witness ==
  /\ Ticked
  /\ target_id = pre.target_id + 1
  /\ tracked_marker.id = pre.target_id
  /\ target_marker.id = target_id

\* C10 as claimed: is_target_lost is true exactly when more than the
\* timeout has passed since the marker with the current target_id was last
\* observed (since construction if it never was), also right after the
\* target has advanced.
C10_LostSinceTargetSeen ==
  is_target_lost <=> (now - last_seen[target_id]) > TARGET_LOST_TIMEOUT_SEC

\* C10 amended: is_target_lost is true exactly when more than the timeout
\* has passed since the latest tick whose frame held the marker that was the
\* target when that tick started (since construction if there was none).
\* After an advance the timer runs from the advancing tick, whether or not
\* the new target has been observed.
C10_LostSinceSighting ==
  is_target_lost <=> (now - last_sighting) > TARGET_LOST_TIMEOUT_SEC

\* C10 witness: the target lost, one second past the timeout.
C10_Witness ==
  /\ Ticked
  /\ is_target_lost
  /\ now - last_sighting = TARGET_LOST_TIMEOUT_SEC + 1

\* C11: across any sequence of ticks target_id and max_id never decrease,
\* and reached_id equals the number of APPROACHING ticks so far in which the
\* target (with target_id # 0) was reached within the threshold.
C11_Monotone ==
  /\ [][target_id' >= target_id /\ max_id' >= max_id]_vars
  /\ [](reached_id = reached_ticks)

\* C11 witness: two waypoints reached, and the largest identity of the
\* course has been seen.
C11_Witness ==
  /\ Ticked
  /\ reached_ticks = 2
  /\ target_id = 3
  /\ max_id = MaxMarkerId

\* C12: the phase only moves forward in the order TAKEOFF < ALIGNING <
\* APPROACHING < LANDING: no tick moves it to an earlier phase, whatever the
\* heights and the markers in view.
C12_PhaseForward == [][Rank(phase') >= Rank(phase)]_vars

\* C12 witness: a tick in APPROACHING with the height out of the band and
\* the target out of view, and the phase still APPROACHING.
C12_Witness ==
  /\ Ticked
  /\ pre.phase = APPROACHING
  /\ phase = APPROACHING
  /\ current_height < TARGET_HEIGHT_CM - HEIGHT_TOLERANCE_CM
  /\ tracked_marker = None

\* C13: at most one transition fires per tick: a tick advances the phase by
\* at most one step and target_id by at most 1, and not both, even when the
\* guards of successive transitions hold on that tick.
C13_OneTransition ==
  [][(Rank(phase') - Rank(phase)) + (target_id' - target_id) <= 1]_vars

\* C13 witness: a tick in APPROACHING that reached its target with the next
\* target in view within the threshold as well, and advanced by one only.
C13_Witness ==
  /\ Ticked
  /\ pre.phase = APPROACHING
  /\ target_id = pre.target_id + 1
  /\ target_marker.id = target_id
  /\ WithinThreshold(target_marker)

\* C13, the other case: a tick in TAKEOFF with the height in the band and
\* the target within the threshold, which went to ALIGNING only.
C13_TakeoffWithTargetClose ==
  /\ Ticked
  /\ pre.phase = TAKEOFF
  /\ phase = ALIGNING
  /\ tracked_marker # None
  /\ WithinThreshold(tracked_marker)

\* C14: on every tick, in every phase and whether or not a target is in
\* view, the vertical field is -20 if the height is above the target height
\* plus the tolerance, +20 if it is below the target height minus the
\* tolerance, and 0 otherwise.
C14_VerticalRule ==
  Ticked =>
    control_values.up_down =
      IF current_height > TARGET_HEIGHT_CM + HEIGHT_TOLERANCE_CM THEN 0 - 20
      ELSE IF current_height < TARGET_HEIGHT_CM - HEIGHT_TOLERANCE_CM THEN 20
      ELSE 0

\* C14 witness: a tick in LANDING with no target in view, above the band.
C14_Witness ==
  /\ Ticked
  /\ phase = LANDING
  /\ target_marker = None
  /\ current_height > TARGET_HEIGHT_CM + HEIGHT_TOLERANCE_CM
  /\ control_values.up_down = 0 - 20

\* C15: on a tick whose frame holds no marker with the current target_id,
\* the lateral, longitudinal and yaw fields are 0, in every phase and
\* whatever the earlier ticks commanded.
C15_NoTargetNoSteering ==
  (Ticked /\ last_seen[target_id] # now) =>
    /\ control_values.left_right = 0
    /\ control_values.forward_backward = 0
    /\ control_values.yaw = 0

\* C15 witness: a tick without the target in view while other markers are
\* (max_id was raised by this frame), after ticks whose lateral command was
\* not 0 (the lateral loop has run, and every centre is off the target
\* column).
C15_Witness ==
  /\ Ticked
  /\ last_seen[target_id] # now
  /\ last_max_id_time = now
  /\ pid_x.last_input # <<>>
  /\ control_values.left_right = 0

\* C16: with the target in view, when the phase the control law uses is
\* ALIGNING the lateral and longitudinal fields are 0 and the yaw field is
\* the output of the (proportional-only) yaw loop; in every other phase the
\* yaw field is 0.
C16_ModeSplit ==
  (Ticked /\ target_marker # None) =>
    IF phase = ALIGNING
    THEN /\ control_values.left_right = 0
         /\ control_values.forward_backward = 0
         /\ control_values.yaw =
              Clamp(PyInt(TDiv(PID_CONFIG.R.KP * RotationError(target_marker), 100)))
    ELSE control_values.yaw = 0

\* C16 witness: an aligning tick with a yaw command.
C16_Witness ==
  /\ Ticked
  /\ phase = ALIGNING
  /\ target_marker # None
  /\ control_values.yaw # 0
  /\ control_values.left_right = 0

\* C16, the other side: a tick in LANDING with lateral and longitudinal
\* commands.
C16_MoveInLanding ==
  /\ Ticked
  /\ phase = LANDING
  /\ control_values.left_right # 0
  /\ control_values.forward_backward # 0

\* C17: a tick with an empty marker list and the height within the
\* tolerance, in phase ALIGNING, APPROACHING or LANDING, gives the command
\* (0, 0, 0, 0) and leaves phase, target_id, reached_id and max_id unchanged.
C17_EmptyFrameInBand ==
  [][(/\ pc = "loop"
      /\ pc' = "send"
      /\ markers' = 0
      /\ current_height' >= TARGET_HEIGHT_CM - HEIGHT_TOLERANCE_CM
      /\ current_height' <= TARGET_HEIGHT_CM + HEIGHT_TOLERANCE_CM
      /\ phase \in {ALIGNING, APPROACHING, LANDING}) =>
       /\ control_values' = ZeroCommand
       /\ phase' = phase
       /\ target_id' = target_id
       /\ reached_id' = reached_id
       /\ max_id' = max_id]_vars

\* C17 witness: such a tick in APPROACHING, on the edge of the band, after
\* markers have been seen and the position loops have run.
C17_Witness ==
  /\ Ticked
  /\ markers = 0
  /\ current_height = TARGET_HEIGHT_CM - HEIGHT_TOLERANCE_CM
  /\ pre.phase = APPROACHING
  /\ max_id > 0
  /\ pid_x.last_input # <<>>
  /\ control_values = ZeroCommand

\* A loop after one call: it holds the input of the call, and its integral
\* is the integral before plus Ki * error * dt of the call.
Accumulated(old, new, K) ==
  /\ new.last_input # <<>>
  /\ new.integral =
       old.integral
         + TDiv(K.KI * (0 - new.last_input[1]) * (new.last_time - old.last_time), 100)

\* A loop has lost its state: its previous input is gone.
Lost(old, new) == old.last_input # <<>> /\ new.last_input = <<>>

\* C18: only a reset_pid call resets a PID loop.  Any other step that runs
\* without the target in view leaves the three loops as they are; a tick in
\* ALIGNING with the target in view calls the yaw loop only, a tick in any
\* other phase with the target in view calls the lateral and longitudinal
\* loops only; a called loop accumulates onto the state it had, across
\* transitions, advances, loss and re-acquisition of the target.
C18_NoImplicitReset ==
  [][/\ (Lost(pid_x, pid_x') \/ Lost(pid_y, pid_y') \/ Lost(pid_r, pid_r')) =>
          reset_pid
     /\ (~reset_pid /\ target_marker' = None) =>
          pid_x' = pid_x /\ pid_y' = pid_y /\ pid_r' = pid_r
     /\ (target_marker' # None /\ phase' = ALIGNING) =>
          /\ pid_x' = pid_x
          /\ pid_y' = pid_y
          /\ Accumulated(pid_r, pid_r', PID_CONFIG.R)
     /\ (target_marker' # None /\ phase' # ALIGNING) =>
          /\ pid_r' = pid_r
          /\ Accumulated(pid_x, pid_x', PID_CONFIG.X)
          /\ Accumulated(pid_y, pid_y', PID_CONFIG.Y)]_vars

\* C18 witness: a tick that advanced the target and has the new target out
\* of view, with the integral of the lateral loop and the previous input of
\* the yaw loop still in place.
C18_Witness ==
  /\ Ticked
  /\ target_id = pre.target_id + 1
  /\ target_marker = None
  /\ pid_x.integral # 0
  /\ pid_r.last_input # <<>>

\* C18, re-acquisition: a tick with the target in view whose lateral loop
\* was last called more than one tick earlier on.
C18_Reacquired ==
  /\ pc = "loop"
  /\ pid_x.last_input # <<>>
  /\ now - pid_x.last_time >= 2
  /\ now < MaxTime

\* C18, the explicit reset: the loops just reset after they had run.
C18_AfterReset ==
  /\ pc = "loop"
  /\ now > 0
  /\ pid_x = NewPID(now)
  /\ pid_r = NewPID(now)
  /\ reached_id >= 1

\* C19: after every tick max_id is the largest of 0 and all identities seen
\* in any frame so far; last_max_id_time changes in a tick exactly when
\* max_id grows in it; so should_update_max_id is true exactly when more
\* than the reset timeout has passed since max_id last grew (since
\* construction if it never did), also while markers are in view.
C19_MaxIdTracking ==
  /\ [](max_id = max_seen)
  /\ [][(last_max_id_time' # last_max_id_time) <=> (max_id' > max_id)]_vars
  /\ [](should_update_max_id <=> (now - last_increase) > MAX_ID_TIME_RESET)

\* C19 witness: the estimate is stale, one second past the timeout, on a
\* tick with markers in view, after max_id had grown.
C19_Witness ==
  /\ Ticked
  /\ should_update_max_id
  /\ markers > 0
  /\ max_id > 0
  /\ now - last_increase = MAX_ID_TIME_RESET + 1

\* C19, the boundary: exactly the timeout has passed, and the estimate is
\* not stale yet.
C19_AtTimeout ==
  /\ Ticked
  /\ now - last_increase = MAX_ID_TIME_RESET
  /\ ~should_update_max_id

C20_FailureZeroesAll ==
  (Ticked /\ Malformed(target_marker)) =>
    /\ control_values = ZeroCommand
    /\ pre.phase \in {ALIGNING, APPROACHING} =>
         /\ phase = pre.phase
         /\ target_id = pre.target_id
         /\ reached_id = pre.reached_id

\* C20, the failing tick: a malformed target above the height band.
C20_FailedAboveBand ==
  /\ Ticked
  /\ Malformed(target_marker)
  /\ current_height > TARGET_HEIGHT_CM + HEIGHT_TOLERANCE_CM
  /\ control_values.up_down = 0

\* The target of the tick is in view on a line through the target point.
OnAxis(m) ==
  m # None /\ ~Malformed(m) /\ (m.center_x = TARGET_X \/ m.center_y = TARGET_Y)

\* C21: the rotation error is 0 whenever dx = 0 or dy = 0, and in ALIGNING
\* the yaw command of such a tick is 0.
C21_RotationZeroOnAxes ==
  (Ticked /\ OnAxis(target_marker)) =>
    /\ RotationError(target_marker) = 0
    /\ phase = ALIGNING => control_values.yaw = 0

\* C21, what the code does: for dx = 0 the rotation error and the yaw
\* command are 0; for dy = 0 and dx # 0 the quotient of the numpy floats is
\* +-inf, the rotation error +-90 degrees and the yaw command in ALIGNING
\* +-72.
C21_RotationOnAxes ==
  (Ticked /\ OnAxis(target_marker)) =>
    IF target_marker.center_x = TARGET_X
    THEN /\ RotationError(target_marker) = 0
         /\ control_values.yaw = 0
    ELSE /\ RotationError(target_marker) =
              Sign(target_marker.center_x - TARGET_X) * 90 * Scale
         /\ phase = ALIGNING =>
              control_values.yaw = Sign(target_marker.center_x - TARGET_X) * 72

\* C21, the failing tick: an aligning tick with the target level with the
\* target point and a yaw command.
C21_YawOnLevelTarget ==
  /\ Ticked
  /\ phase = ALIGNING
  /\ target_marker # None
  /\ target_marker.center_y = TARGET_Y
  /\ control_values.yaw = 72

\* C26: in every reachable state target_id = reached_id + 1, so target_id
\* is at least 1 and never the landing identity 0.
C26_TargetIsNextWaypoint == target_id = reached_id + 1 /\ target_id >= 1

\* C26 witness: after two advances.
C26_Witness ==
  /\ pc = "loop"
  /\ reached_id = 2
  /\ target_id = 3

\* C27: in every reachable state reached_id <= max_id and target_id <=
\* max_id + 1: the target only advances past an identity that has been seen.
C27_TargetWithinSeen == reached_id <= max_id /\ target_id <= max_id + 1

\* C27 witness: the tight case after an advance: the target is one beyond
\* the largest identity ever seen.
C27_Witness ==
  /\ Ticked
  /\ reached_id >= 1
  /\ reached_id = max_id
  /\ target_id = max_id + 1

\* C29: for a tick that starts in TAKEOFF, the phase after the tick is
\* still TAKEOFF exactly when the vertical field of its command is not 0;
\* the tick that leaves TAKEOFF has vertical 0.
C29_VerticalAgreesWithTakeoff ==
  (Ticked /\ pre.phase = TAKEOFF) =>
    /\ phase = TAKEOFF <=> control_values.up_down # 0
    /\ control_values.up_down # 0 => control_values.up_down \in {0 - 20, 20}

\* C29 witness: the tick that leaves TAKEOFF, on the edge of the band, with
\* vertical 0 and a marker in view.
C29_Witness ==
  /\ Ticked
  /\ pre.phase = TAKEOFF
  /\ phase = ALIGNING
  /\ current_height = TARGET_HEIGHT_CM - HEIGHT_TOLERANCE_CM
  /\ control_values.up_down = 0
  /\ markers > 0

\* C29, the other side: a tick that stays in TAKEOFF above the band.
C29_StillClimbing ==
  /\ Ticked
  /\ pre.phase = TAKEOFF
  /\ phase = TAKEOFF
  /\ control_values.up_down = 0 - 20

\* C28: target loss never changes the mission state: a tick in ALIGNING or
\* APPROACHING whose frame does not hold the target leaves phase, target_id
\* and reached_id unchanged and gives lateral, longitudinal and yaw 0,
\* however long the target has been gone, also when is_target_lost or
\* should_update_max_id was true before the tick.
C28_LossKeepsMission ==
  [][(/\ pc = "loop"
      /\ pc' = "send"
      /\ phase \in {ALIGNING, APPROACHING}
      /\ tracked_marker' = None) =>
       /\ phase' = phase
       /\ target_id' = target_id
       /\ reached_id' = reached_id
       /\ control_values'.left_right = 0
       /\ control_values'.forward_backward = 0
       /\ control_values'.yaw = 0]_vars

\* C28 witness: a tick in APPROACHING without the target, run when the
\* target, seen before, had been lost for longer than the timeout.
C28_Witness ==
  /\ Ticked
  /\ pre.phase = APPROACHING
  /\ tracked_marker = None
  /\ last_target_time > 0
  /\ (now - 1) - last_target_time > TARGET_LOST_TIMEOUT_SEC

\* C28, the other timer: a tick in ALIGNING without the target, run when
\* the max_id estimate had gone stale.
C28_StaleMaxId ==
  /\ Ticked
  /\ pre.phase = ALIGNING
  /\ tracked_marker = None
  /\ (now - 1) - last_max_id_time > MAX_ID_TIME_RESET

\* C22: an iteration whose frame read fails is skipped whole: the step from
\* the read back to the head of the loop changes no navigation state, no
\* timer, no PID loop and nothing else of the engine, sends no command to
\* the drone and writes no telemetry record.
C22_FailedReadSkipsTick ==
  [][ (pc = "frame" /\ pc' = "loop") =>
        /\ UNCHANGED engine_vars
        /\ drone' = drone
        /\ system'.rc_sent = system.rc_sent
        /\ system'.records = system.records ]_vars

\* C22 witness: in real flight, after a tick has been logged, an iteration
\* that took a message off the queue ended on a failed read (a completed
\* iteration clears the message local).
C22_Witness ==
  /\ pc = "loop"
  /\ system.real_flight
  /\ system.records >= 1
  /\ system.message = << "height" >>

\* Position of the first "stop" in a queue (0 when it holds none): the
\* number of messages in front of it, plus one.
RECURSIVE StopDepth(_)
StopDepth(q) ==
  IF q = << >> THEN 0
  ELSE IF Head(q) = "stop" THEN 1
  ELSE IF StopDepth(Tail(q)) = 0 THEN 0
  ELSE StopDepth(Tail(q)) + 1

\* The commands a call sequence handed to the Tello handle.
Issued(d) == { d.tello[i] : i \in 1..Len(d.tello) }

\* C23: once the loop has taken "stop" off the queue it is out of the loop
\* (is_running is False and only cleanup is left), no step after that
\* changes the engine, logs a record or sends a command from the loop, and
\* the cleanup that follows issues, in real flight, the zero command and,
\* if the drone was flying, the landing.  The loop takes at most one
\* message per iteration, always the head and only in the step that leaves
\* the loop head, so a "stop" with k messages in front of it moves up one
\* place per iteration and is acted on only when it is the head.
C23_StopEndsLoop ==
  /\ [](system.message = << "stop" >> =>
          /\ ~system.is_running
          /\ pc \in {"cleanup", "done"}
          /\ (pc = "done" /\ system.real_flight) =>
               /\ TelloRc(0, 0, 0, 0) \in Issued(drone)
               /\ system.was_flying => TelloLand \in Issued(drone))
  /\ [][ system.message = << "stop" >> =>
           /\ UNCHANGED engine_vars
           /\ system'.records = system.records
           /\ system'.rc_sent = system.rc_sent
           /\ drone' # drone => (pc = "cleanup" /\ pc' = "done") ]_vars
  /\ [][ Len(bluetooth'.message_queue) < Len(bluetooth.message_queue) =>
           /\ pc = "loop"
           /\ pc' \in {"frame", "cleanup"}
           /\ bluetooth'.message_queue = Tail(bluetooth.message_queue)
           /\ system'.message = << Head(bluetooth.message_queue) >> ]_vars
  /\ [][ (system'.message = << "stop" >> /\ system.message # << "stop" >>) =>
           StopDepth(bluetooth.message_queue) = 1 ]_vars
  /\ [][ StopDepth(bluetooth.message_queue) > 1 =>
           StopDepth(bluetooth'.message_queue) >=
             StopDepth(bluetooth.message_queue) - 1 ]_vars

\* C23 witness: a real flight ended by a "stop" that was queued behind
\* another message, after at least one logged tick, cleaned up while
\* flying.
C23_Witness ==
  /\ pc = "done"
  /\ system.real_flight
  /\ system.was_flying
  /\ system.exit = "stop"
  /\ system.records >= 1
  /\ bluetooth.delivered = << "height", "stop" >>

\* A "stop" waits in the queue behind another message while the loop runs
\* a tick.
C23_StopQueuedBehind ==
  /\ pc = "send"
  /\ StopDepth(bluetooth.message_queue) = 2

\* C24: main_loop is left only into cleanup(), whichever way it is left
\* (the stop message, LANDING, a failed takeoff, an exception in the loop),
\* and when cleanup() has run in real flight the drone controller has
\* is_flying = False and is_connected = False, the zero command has been
\* handed to the drone and, if the drone was flying, a landing command too.
C24_EveryExitCleansUp ==
  /\ [][ (pc \in {"main_loop", "loop", "frame", "send"} /\
          pc' \notin {"main_loop", "loop", "frame", "send"}) =>
           /\ pc' = "cleanup"
           /\ system'.exit \in {"stop", "landing", "takeoff", "exception"} ]_vars
  /\ [][ pc = "cleanup" /\ pc' # "cleanup" => pc' = "done" ]_vars
  /\ [](system.exit # "none" => pc \in {"cleanup", "done"})
  /\ []((pc = "done" /\ system.real_flight) =>
          /\ ~drone.is_flying
          /\ ~drone.is_connected
          /\ TelloRc(0, 0, 0, 0) \in Issued(drone)
          /\ system.was_flying => TelloLand \in Issued(drone))

\* C24 witness: a real flight that ended in LANDING and was cleaned up
\* while the drone was flying.
C24_Witness ==
  /\ pc = "done"
  /\ system.real_flight
  /\ system.exit = "landing"
  /\ system.was_flying
  /\ ~drone.is_flying
  /\ ~drone.is_connected

\* The other ways out of main_loop, each cleaned up in real flight: a
\* failed takeoff (the drone not flying, so no landing is issued), an
\* exception in the loop, the stop message.
C24_AfterFailedTakeoff ==
  /\ pc = "done"
  /\ system.real_flight
  /\ system.exit = "takeoff"
  /\ ~system.was_flying
  /\ TelloLand \notin Issued(drone)

C24_AfterException ==
  /\ pc = "done"
  /\ system.real_flight
  /\ system.exit = "exception"
  /\ system.was_flying

C24_AfterStop ==
  /\ pc = "done"
  /\ system.real_flight
  /\ system.exit = "stop"

\* A cleanup in which every Tello call raised: the zero command and both
\* landing attempts were made, and the flags are cleared all the same.
C24_AllCallsFailed ==
  /\ pc = "done"
  /\ system.real_flight
  /\ system.was_flying
  /\ drone.tello = << TelloRc(0, 0, 0, 0), TelloLand, TelloEnd >>

\* The message the listener has taken off the socket and not yet put.
InListener == IF bluetooth.at = "put" THEN << bluetooth.data >> ELSE << >>

\* C25: the messages cross from the listener thread to the loop without
\* loss, duplication or reordering, under any interleaving of the two: the
\* non-empty messages received are, in order, those get_message has
\* returned, then those in the queue, then the one the listener is about
\* to put; no empty message is passed on; and a get_message returns None
\* exactly when the queue is empty and the head of the queue otherwise.
C25_QueueIsFifo ==
  /\ [](bluetooth.received =
          bluetooth.delivered \o bluetooth.message_queue \o InListener)
  /\ [](\A i \in 1..Len(bluetooth.received) : bluetooth.received[i] # "")
  /\ [][ (pc = "loop" /\ pc' # "loop") =>
           IF bluetooth.message_queue = << >>
           THEN /\ system'.message = << >>
                /\ bluetooth'.delivered = bluetooth.delivered
           ELSE /\ system'.message = << Head(bluetooth.message_queue) >>
                /\ bluetooth'.delivered =
                     Append(bluetooth.delivered, Head(bluetooth.message_queue))
                /\ bluetooth'.message_queue = Tail(bluetooth.message_queue) ]_vars

\* C25 witness: two different messages were received; the first has been
\* returned to the loop, which is in an iteration, and the second waits in
\* the queue.
C25_Witness ==
  /\ pc = "frame"
  /\ bluetooth.received = << "height", "stop" >>
  /\ bluetooth.delivered = << "height" >>
  /\ bluetooth.message_queue = << "stop" >>

\* A get_message on an empty queue after an earlier one returned a message,
\* while the listener holds the next message.
C25_NoneWhenEmpty ==
  /\ pc = "frame"
  /\ system.message = << >>
  /\ bluetooth.delivered = << "height" >>
  /\ bluetooth.message_queue = << >>
  /\ bluetooth.at = "put"

\* C30: in every state of a DroneController, is_flying implies
\* is_connected and an existing drone handle; and a takeoff, land or
\* send_rc_control called while the controller is not connected returns
\* False, hands no command to the drone and leaves both flags (and the
\* handle) as they were.
C30_FlyingImpliesConnected ==
  /\ [](drone.is_flying => (drone.is_connected /\ drone.drone # "None"))
  /\ [][ (drone'.call \in {"takeoff", "land", "send_rc_control"} /\
          ~drone.is_connected) =>
           /\ drone'.result = "False"
           /\ drone'.tello = << >>
           /\ drone'.is_flying = drone.is_flying
           /\ drone'.is_connected = drone.is_connected
           /\ drone'.drone = drone.drone ]_vars

\* C30 witness: a takeoff refused on a controller that holds a handle but
\* is not connected (after cleanup(), or after a connect() whose Tello
\* connect raised).
C30_Witness ==
  /\ drone.call = "takeoff"
  /\ drone.drone = "Tello"
  /\ ~drone.is_connected
  /\ ~drone.is_flying
  /\ drone.result = "False"
  /\ drone.tello = << >>

\* A controller that is flying, with the scaled command it was last given.
C30_Flying ==
  /\ drone.is_flying
  /\ drone.call = "send_rc_control"
  /\ drone.tello = << TelloRc(0 - 40, 40, 8, 28) >>

====
